---- MODULE Spec2Model ----
(***************************************************************************)
(* Model of the Hailo8 installation orchestrator                           *)
(* (src/hailo8_installer/installer.py): the component map, the state file, *)
(* the retry / repair pipeline of install_all(), rollback and restart.     *)
(***************************************************************************)
EXTENDS Integers, Sequences, FiniteSets, TLC

(* ---------------------------------------------------------------------- *)
(* Bounds                                                                  *)
(* ---------------------------------------------------------------------- *)
\* number of install_all() calls made by one installer process
MaxCalls == 2
\* number of times the process is killed and a new installer constructed
MaxRestarts == 1
\* number of rollback_installation() calls
MaxRollbacks == 1
\* number of install function invocations that fail (return False or raise)
MaxFailures == 6
\* number of component records in a state file handed to the constructor
MaxDocLen == 2

(* ---------------------------------------------------------------------- *)
(* Data model                                                              *)
(* ---------------------------------------------------------------------- *)
\* InstallComponent.max_retries default
DefaultMaxRetries == 3

\* the install_steps list of install_all(), in its fixed order
install_steps ==
    <<"system_check", "dependencies", "pcie_driver",
      "hailort", "docker_config", "validation">>

NumSteps == Len(install_steps)

Names == {install_steps[i] : i \in 1..NumSteps}

\* values of the InstallStatus enumeration
InstallStatus ==
    {"pending", "running", "success", "failed", "rollback", "recovered"}

\* values of the ComponentType enumeration
ComponentType == Names

\* messages carried by exceptions raised inside an install function
Msgs == {"E1"}

\* _initialize_components(): every component Pending with the dataclass defaults
InitializeComponents ==
    [n \in Names |->
        [type |-> n, status |-> "pending", error_msg |-> "",
         retry_count |-> 0, max_retries |-> DefaultMaxRetries]]

\* position of a component in the fixed order
IndexOf(n) == CHOOSE i \in 1..NumSteps : install_steps[i] = n

(* ---------------------------------------------------------------------- *)
(* State file: _save_state / _load_state                                   *)
(* ---------------------------------------------------------------------- *)
\* no state file in the install directory
FileMissing == [kind |-> "missing", entries |-> <<>>]

\* a state file whose content is not a JSON document
FileUnparseable == [kind |-> "unparseable", entries |-> <<>>]

\* dataclasses.asdict(component): the enum fields stay Enum members
AsDict(c) ==
    [type |-> [isEnum |-> TRUE, value |-> c.type],
     status |-> [isEnum |-> TRUE, value |-> c.status],
     error_msg |-> c.error_msg,
     retry_count |-> c.retry_count,
     max_retries |-> c.max_retries]

\* the default JSON encoder accepts str, int, dict, list, None; an Enum
\* member makes it raise TypeError
JsonEncodable(d) == ~d.type.isEnum /\ ~d.status.isEnum

\* json.dump into the file opened with mode 'w': the file is truncated on
\* open; when the encoder raises, only the prefix written so far remains
JsonDump(comps) ==
    IF \A n \in Names : JsonEncodable(AsDict(comps[n]))
    THEN [kind |-> "doc",
          entries |-> [i \in 1..NumSteps |->
              [key |-> install_steps[i],
               shape |-> "ok",
               type |-> AsDict(comps[install_steps[i]]).type.value,
               status |-> AsDict(comps[install_steps[i]]).status.value,
               error_msg |-> comps[install_steps[i]].error_msg,
               retry_count |-> comps[install_steps[i]].retry_count,
               max_retries |-> comps[install_steps[i]].max_retries]]]
    ELSE FileUnparseable

\* _save_state(): any exception of the write is caught and logged
SaveState(comps) == JsonDump(comps)

\* str(e) of the exception of a failed write
SaveError == "save failed"

\* a _save_state() without its try/except: a failed write reaches the caller
SaveStateRaisesOnFailure(comps) == JsonDump(comps).kind # "doc"

\* does _save_state() raise: its except Exception branch swallows every
\* failure of the write
SaveStateRaises(comps) == FALSE

\* can lines 169-171 rebuild an InstallComponent from this record
Rebuildable(e) ==
    /\ e.shape = "ok"
    /\ e.type \in ComponentType
    /\ e.status \in InstallStatus

\* the for loop of _load_state(): records are restored one by one in file
\* order; the first record that raises ends the loop, what was restored
\* before it stays
RECURSIVE LoadEntries(_, _)
LoadEntries(entries, comps) ==
    IF entries = <<>> THEN comps
    ELSE LET e == Head(entries) IN
         IF e.key \notin Names THEN LoadEntries(Tail(entries), comps)
         ELSE IF ~Rebuildable(e) THEN comps
         ELSE LoadEntries(Tail(entries),
                [comps EXCEPT ![e.key] =
                    [type |-> e.type, status |-> e.status,
                     error_msg |-> e.error_msg,
                     retry_count |-> e.retry_count,
                     max_retries |-> e.max_retries]])

\* _load_state(): a missing file or a json.load failure leaves comps as is
LoadState(f, comps) ==
    IF f.kind = "doc" THEN LoadEntries(f.entries, comps) ELSE comps

(* ---------------------------------------------------------------------- *)
(* State                                                                   *)
(* ---------------------------------------------------------------------- *)
VARIABLES
    components,   \* self.components of the live installer: name -> record
    file,         \* content of <install_dir>/install_state.json
    pc,           \* "new" | "idle" | "loop" | "retry" | "call" | "repair" | "dead"
    idx,          \* position of install_all()'s for loop in install_steps
    ret,          \* what install_all() returned ("raise": the last operation raised), "none" while it runs or after another operation
    installCalls, \* per component: install function invocations in this install_all()
    repairCalls,  \* per component: repair function invocations in this install_all()
    entry,        \* the component map when the current install_all() was entered
    prevRet,      \* ret as it was when the current install_all() was entered
    saved,        \* the component map handed to the last _save_state()
    halted,       \* component whose repair function returned False in this install_all()
    killK,        \* last component that was Success when the process was killed
    calls, restarts, rollbacks,  \* how often each operation was used
    failures,     \* how many install function invocations have failed
    lastReason,   \* how the last failed attempt of the running _retry_operation failed
    docker,       \* the DockerHailo8Manager: docker_available and its setup run
    tester,       \* the Hailo8Tester run started by tester.py's main()
    call,         \* one call of a command runner or of a package-level function
    two           \* two installer processes working on one install directory

vars == <<components, file, pc, idx, ret, installCalls, repairCalls, entry,
          prevRet, saved, halted, killK, calls, restarts, rollbacks, failures,
          lastReason, docker, tester, call, two>>

\* the state of the Hailo8Installer and of its state file
installerVars ==
    <<components, file, pc, idx, ret, installCalls, repairCalls, entry,
      prevRet, saved, halted, killK, calls, restarts, rollbacks, failures,
      lastReason>>

\* the state that no Hailo8Installer operation touches
otherVars == <<docker, tester, call, two>>

\* no DockerHailo8Manager constructed yet
DockerNew ==
    [pc |-> "new", available |-> FALSE, step |-> 1, ret |-> "none",
     log |-> <<>>, setups |-> 0, direct |-> 0,
     last |-> [step |-> "none", result |-> "none", cmds |-> 0, writes |-> 0]]

\* tester.py not started yet
TesterNew ==
    [pc |-> "new", argv |-> "", idx |-> 1, ran |-> <<>>, results |-> <<>>,
     exit |-> 0]

\* nothing called yet
CallNone ==
    [fn |-> "none", done |-> FALSE, input |-> [kind |-> "none"],
     result |-> [kind |-> "none"]]

\* the two installer processes
Procs == {1, 2}

\* neither process has constructed its installer; nothing was saved
TwoNew ==
    [procs |-> [p \in Procs |->
                    [pc |-> "new", idx |-> 1, ret |-> "none", calls |-> 0,
                     components |-> InitializeComponents]],
     lastSaver |-> 0, snapshot |-> InitializeComponents, failures |-> 0]

\* no attempt of the running _retry_operation has failed
NoReason == [kind |-> "none", msg |-> ""]

Zero == [n \in Names |-> 0]

\* a for loop that walks install_steps from its end
CurReversed == install_steps[NumSteps + 1 - idx]

\* the component the for loop of install_all() is at
Cur == install_steps[idx]

\* largest position whose component is Success (0 when none is)
LastSuccess(comps) ==
    LET S == {i \in 1..NumSteps : comps[install_steps[i]].status = "success"}
    IN IF S = {} THEN 0 ELSE CHOOSE i \in S : \A j \in S : j <= i

(* ---------------------------------------------------------------------- *)
(* Results of the functions install_all() calls                            *)
(* ---------------------------------------------------------------------- *)
\* what one invocation of an install function can do: return True, return
\* False, or raise an exception with a message
InstallOutcomes ==
    {[kind |-> "true", msg |-> ""], [kind |-> "false", msg |-> ""]}
    \cup {[kind |-> "raise", msg |-> m] : m \in Msgs}

\* repair functions that all report what their last command returned
RepairOutcomesAllChecked(n) == {TRUE, FALSE}

\* what the repair function of a component can return
RepairOutcomes(n) ==
    IF n \in {"system_check", "dependencies", "docker_config"}
    THEN {TRUE}
    ELSE {TRUE, FALSE}

(* ---------------------------------------------------------------------- *)
(* Construction                                                            *)
(* ---------------------------------------------------------------------- *)
\* Hailo8Installer.__init__: defaults, then best-effort load of the file
Construct ==
    /\ pc \in {"new", "dead"}
    /\ components' = LoadState(file, InitializeComponents)
    /\ pc' = "idle"
    /\ idx' = 1
    /\ ret' = "none"
    /\ installCalls' = Zero
    /\ repairCalls' = Zero
    /\ entry' = LoadState(file, InitializeComponents)
    /\ prevRet' = "none"
    /\ halted' = "none"
    /\ lastReason' = NoReason
    /\ UNCHANGED <<file, saved, killK, calls, restarts, rollbacks, failures>>
    /\ UNCHANGED otherVars

(* ---------------------------------------------------------------------- *)
(* install_all()                                                           *)
(* ---------------------------------------------------------------------- *)
\* install_all() is entered
StartInstallAll ==
    /\ pc = "idle"
    /\ calls < MaxCalls
    /\ calls' = calls + 1
    /\ pc' = "loop"
    /\ idx' = 1
    /\ installCalls' = Zero
    /\ repairCalls' = Zero
    /\ entry' = components
    /\ prevRet' = ret
    /\ ret' = "none"
    /\ halted' = "none"
    /\ UNCHANGED <<components, file, saved, killK, restarts, rollbacks, failures,
                   lastReason>>
    /\ UNCHANGED otherVars

\* a for loop that skips nothing
AlreadyDoneNever(c) == FALSE

\* the test of the for loop that skips a component
AlreadyDone(c) == c.status = "success"

\* for loop: a component that is already Success is skipped
SkipSuccess ==
    /\ pc = "loop"
    /\ idx <= NumSteps
    /\ AlreadyDone(components[Cur])
    /\ idx' = idx + 1
    /\ UNCHANGED <<components, file, pc, ret, installCalls, repairCalls,
                   entry, prevRet, saved, killK, calls, restarts, rollbacks,
                   failures, halted, lastReason>>
    /\ UNCHANGED otherVars

\* for loop: _retry_operation is entered for a component that is not Success
EnterRetry ==
    /\ pc = "loop"
    /\ idx <= NumSteps
    /\ ~AlreadyDone(components[Cur])
    /\ pc' = "retry"
    /\ lastReason' = NoReason
    /\ UNCHANGED <<components, file, idx, ret, installCalls, repairCalls,
                   entry, prevRet, saved, killK, calls, restarts, rollbacks,
                   failures, halted>>
    /\ UNCHANGED otherVars

\* the while condition with an off-by-one comparison
RetryGuardOffByOne(c) == c.retry_count <= c.max_retries

\* a while loop that goes on until the install function succeeds
RetryGuardUnbounded(c) == TRUE

\* the while condition of _retry_operation
RetryGuard(c) == c.retry_count < c.max_retries

\* _retry_operation, loop body up to the call: Running, save, invoke
RetryAttempt ==
    /\ pc = "retry"
    /\ RetryGuard(components[Cur])
    /\ saved' = [components EXCEPT ![Cur].status = "running"]
    /\ file' = SaveState(saved')
    /\ IF SaveStateRaises(saved')
       THEN \* line 216 is inside the try: the except branch counts a failure
            /\ components' = [saved' EXCEPT ![Cur].retry_count = @ + 1,
                                            ![Cur].error_msg = SaveError]
            /\ pc' = "retry"
            /\ UNCHANGED installCalls
       ELSE /\ components' = saved'
            /\ installCalls' = [installCalls EXCEPT ![Cur] = @ + 1]
            /\ pc' = "call"
    /\ UNCHANGED <<idx, ret, repairCalls, entry, prevRet, killK,
                   calls, restarts, rollbacks,
                   failures, halted, lastReason>>
    /\ UNCHANGED otherVars

\* a retry loop that does not count an attempt that returned False
AfterInstallForgetsCount(c, o) ==
    IF o.kind = "true"
    THEN [c EXCEPT !.status = "success", !.error_msg = ""]
    ELSE IF o.kind = "false"
    THEN c
    ELSE [c EXCEPT !.retry_count = @ + 1, !.error_msg = o.msg]

\* the component record after the install function came back with outcome o
AfterInstall(c, o) ==
    IF o.kind = "true"
    THEN [c EXCEPT !.status = "success", !.error_msg = ""]
    ELSE IF o.kind = "false"
    THEN [c EXCEPT !.retry_count = @ + 1]
    ELSE [c EXCEPT !.retry_count = @ + 1, !.error_msg = o.msg]

\* _retry_operation, the install function returns or raises
InstallReturns ==
    /\ pc = "call"
    /\ \E o \in InstallOutcomes :
        /\ o.kind # "true" => failures < MaxFailures
        /\ failures' = IF o.kind = "true" THEN failures ELSE failures + 1
        /\ lastReason' = IF o.kind = "true" THEN NoReason ELSE o
        /\ IF o.kind = "true"
           THEN /\ saved' = [components EXCEPT ![Cur] = AfterInstall(@, o)]
                /\ file' = SaveState(saved')
                /\ IF SaveStateRaises(saved')
                   THEN \* line 223 is inside the try as well
                        /\ components' =
                            [saved' EXCEPT ![Cur].retry_count = @ + 1,
                                           ![Cur].error_msg = SaveError]
                        /\ pc' = "retry"
                        /\ idx' = idx
                   ELSE /\ components' = saved'
                        /\ pc' = "loop"
                        /\ idx' = idx + 1
           ELSE /\ components' = [components EXCEPT ![Cur] = AfterInstall(@, o)]
                /\ pc' = "retry"
                /\ UNCHANGED <<saved, file, idx>>
    /\ UNCHANGED <<ret, installCalls, repairCalls, entry, prevRet, halted,
                   killK, calls, restarts, rollbacks>>
    /\ UNCHANGED otherVars

\* a loop exit that leaves the status as the last attempt set it
AfterExhaustedKeepsStatus(c) == c

\* line 236: the component record when the retries are exhausted
AfterExhausted(c) == [c EXCEPT !.status = "failed"]

\* _retry_operation after the loop: Failed, save, return False; install_all
\* then calls _attempt_repair, which invokes the component's repair function
RetryExhausted ==
    /\ pc = "retry"
    /\ ~RetryGuard(components[Cur])
    /\ components' = [components EXCEPT ![Cur] = AfterExhausted(@)]
    /\ saved' = components'
    /\ file' = SaveState(components')
    /\ IF SaveStateRaises(components')
       THEN \* line 237 is outside the try: install_all() would raise
            /\ pc' = "idle"
            /\ ret' = "raise"
            /\ UNCHANGED repairCalls
       ELSE /\ pc' = "repair"
            /\ ret' = ret
            /\ repairCalls' = [repairCalls EXCEPT ![Cur] = @ + 1]
    /\ UNCHANGED <<idx, installCalls, entry, prevRet, killK,
                   calls, restarts, rollbacks,
                   failures, halted, lastReason>>
    /\ UNCHANGED otherVars

\* a repair that hands the component a fresh retry budget
AfterRepairResets(c, ok) == [c EXCEPT !.retry_count = 0]

\* a repair that marks the component it repaired as Recovered
AfterRepairRecovers(c, ok) ==
    IF ok THEN [c EXCEPT !.status = "recovered"] ELSE c

\* the component record after its repair function returned ok
AfterRepair(c, ok) == c

\* install_all() going on to the next component whatever the repair returned
RepairContinuesAlways(ok) == TRUE

\* where install_all() goes after _attempt_repair returned ok:
\* continue with the next component, or return False
RepairContinues(ok) == ok

\* _attempt_repair returns
RepairReturns ==
    /\ pc = "repair"
    /\ \E ok \in RepairOutcomes(Cur) :
        /\ components' = [components EXCEPT ![Cur] = AfterRepair(@, ok)]
        /\ halted' = IF ok THEN halted ELSE Cur
        /\ lastReason' = NoReason
        /\ IF RepairContinues(ok)
           THEN /\ pc' = "loop"
                /\ idx' = idx + 1
                /\ ret' = ret
           ELSE /\ pc' = "idle"
                /\ idx' = idx
                /\ ret' = "false"
    /\ UNCHANGED <<file, installCalls, repairCalls, entry, prevRet, saved,
                   killK, calls, restarts, rollbacks, failures>>
    /\ UNCHANGED otherVars

\* the for loop is over: install_all() returns True
ReturnTrue ==
    /\ pc = "loop"
    /\ idx > NumSteps
    /\ pc' = "idle"
    /\ ret' = "true"
    /\ UNCHANGED <<components, file, idx, installCalls, repairCalls, entry,
                   prevRet, saved, killK, calls, restarts, rollbacks,
                   failures, halted, lastReason>>
    /\ UNCHANGED otherVars

(* ---------------------------------------------------------------------- *)
(* rollback_installation()                                                 *)
(* ---------------------------------------------------------------------- *)
\* lines 934-938: every component back to Pending, error and count cleared
ResetComponent(c) ==
    [c EXCEPT !.status = "pending", !.error_msg = "", !.retry_count = 0]

\* rollback_installation(): the shell commands' results are ignored
RollbackInstallation ==
    /\ pc = "idle"
    /\ rollbacks < MaxRollbacks
    /\ rollbacks' = rollbacks + 1
    /\ components' = [n \in Names |-> ResetComponent(components[n])]
    /\ saved' = components'
    /\ file' = SaveState(components')
    /\ ret' = IF SaveStateRaises(components') THEN "raise" ELSE "none"
    /\ prevRet' = "none"
    /\ killK' = 0
    /\ UNCHANGED <<pc, idx, installCalls, repairCalls, entry, halted,
                   calls, restarts, failures, lastReason>>
    /\ UNCHANGED otherVars

(* ---------------------------------------------------------------------- *)
(* The process is killed                                                   *)
(* ---------------------------------------------------------------------- *)
\* the installer process dies; only the state file survives
Kill ==
    /\ pc \in {"idle", "loop", "retry", "call", "repair"}
    /\ restarts < MaxRestarts
    /\ restarts' = restarts + 1
    /\ killK' = LastSuccess(components)
    /\ pc' = "dead"
    /\ UNCHANGED <<components, file, idx, ret, installCalls, repairCalls,
                   entry, prevRet, saved, calls, rollbacks,
                   failures, halted, lastReason>>
    /\ UNCHANGED otherVars

(* ---------------------------------------------------------------------- *)
(* Specification                                                           *)
(* ---------------------------------------------------------------------- *)
Init ==
    /\ components = InitializeComponents
    /\ file = FileMissing
    /\ pc = "new"
    /\ idx = 1
    /\ ret = "none"
    /\ installCalls = Zero
    /\ repairCalls = Zero
    /\ entry = InitializeComponents
    /\ prevRet = "none"
    /\ saved = InitializeComponents
    /\ halted = "none"
    /\ killK = 0
    /\ calls = 0
    /\ restarts = 0
    /\ rollbacks = 0
    /\ failures = 0
    /\ lastReason = NoReason
    /\ docker = DockerNew
    /\ tester = TesterNew
    /\ call = CallNone
    /\ two = TwoNew

Next ==
    \/ Construct
    \/ StartInstallAll
    \/ SkipSuccess
    \/ EnterRetry
    \/ RetryAttempt
    \/ InstallReturns
    \/ RetryExhausted
    \/ RepairReturns
    \/ ReturnTrue
    \/ RollbackInstallation
    \/ Kill

Spec == Init /\ [][Next]_vars

(* ---------------------------------------------------------------------- *)
(* Construction on a given state file                                      *)
(* ---------------------------------------------------------------------- *)
\* keys of the "components" object of a state file: two component names
\* and a key that is no component
KeyInputs == {"system_check", "dependencies", "other"}

\* one record of the "components" object.  shape says which keys the record
\* has: "ok" (exactly the dataclass fields), "no_type", "no_status",
\* "no_name" (a field is absent), "extra" (a key that is no field)
RecordInputs ==
    [shape : {"ok"},
     type : {"system_check"},
     status : {"success", "failed", "rollback"},
     error_msg : {"", "E1"},
     retry_count : {0},
     max_retries : {DefaultMaxRetries}]
    \cup
    [shape : {"ok"},
     type : {"system_check", "tpu"},
     status : {"success", "done"},
     error_msg : {""},
     retry_count : {2},
     max_retries : {DefaultMaxRetries}]
    \cup
    [shape : {"no_type", "no_status", "no_name", "extra"},
     type : {"system_check"},
     status : {"success"},
     error_msg : {""},
     retry_count : {0},
     max_retries : {DefaultMaxRetries}]

EntryInputs ==
    {[key |-> k, shape |-> r.shape, type |-> r.type, status |-> r.status,
      error_msg |-> r.error_msg, retry_count |-> r.retry_count,
      max_retries |-> r.max_retries] : k \in KeyInputs, r \in RecordInputs}

\* JSON documents of at most MaxDocLen records with distinct keys
DocInputs ==
    UNION {{[kind |-> "doc", entries |-> e] :
                e \in {q \in [1..k -> EntryInputs] :
                          \A i, j \in 1..k : i # j => q[i].key # q[j].key}}
           : k \in 0..MaxDocLen}

FileInputs == {FileMissing, FileUnparseable} \cup DocInputs

InitLoad ==
    /\ file \in FileInputs
    /\ components = InitializeComponents
    /\ pc = "new"
    /\ idx = 1
    /\ ret = "none"
    /\ installCalls = Zero
    /\ repairCalls = Zero
    /\ entry = InitializeComponents
    /\ prevRet = "none"
    /\ saved = InitializeComponents
    /\ halted = "none"
    /\ killK = 0
    /\ calls = 0
    /\ restarts = 0
    /\ rollbacks = 0
    /\ failures = 0
    /\ lastReason = NoReason
    /\ docker = DockerNew
    /\ tester = TesterNew
    /\ call = CallNone
    /\ two = TwoNew

NextLoad == Construct

SpecLoad == InitLoad /\ [][NextLoad]_vars

(* ---------------------------------------------------------------------- *)
(* Properties                                                              *)
(* ---------------------------------------------------------------------- *)
\* install_all() is running, or has returned and nothing else ran since
InCall ==
    \/ pc \in {"loop", "retry", "call", "repair"}
    \/ pc = "idle" /\ ret # "none"

\* components after position i in the fixed order
Later(i) == {install_steps[j] : j \in (i + 1)..NumSteps}

\* components before position i in the fixed order
Earlier(i) == {install_steps[j] : j \in 1..(i - 1)}

\* the repair function of n was invoked in this call and reported success
Repaired(n) == repairCalls[n] > 0 /\ halted # n /\ ~(pc = "repair" /\ Cur = n)

C2_RepairedIsSuccess ==
    \A n \in Names :
        (InCall /\ Repaired(n)) =>
            /\ components[n].status = "success"
            /\ idx > IndexOf(n)

\* C3: whenever an install function or a repair function is running, every
\* earlier component in the fixed order has status Success.
C3_EarlierAllSuccess ==
    pc \in {"call", "repair"} =>
        \A n \in Earlier(idx) : components[n].status = "success"

\* C4: when install_all() has returned true, every one of the six
\* components has status Success.
C4_TrueOnlyIfAllSuccess ==
    (pc = "idle" /\ ret = "true") =>
        \A n \in Names : components[n].status = "success"

\* C5: once the repair function of a component reported failure,
\* install_all() has returned false with the loop still at that component,
\* no install or repair function of a later component was invoked and every
\* later component is as it was on entry.
C5_HaltOnRepairFailure ==
    (InCall /\ halted # "none") =>
        /\ pc = "idle"
        /\ ret = "false"
        /\ idx = IndexOf(halted)
        /\ repairCalls[halted] = 1
        /\ \A n \in Later(idx) :
            /\ installCalls[n] = 0
            /\ repairCalls[n] = 0
            /\ components[n] = entry[n]

\* C5 witness: a fresh run halted at pcie_driver after retries and repair
\* failed; the three later components are still Pending
C5_Witness ==
    /\ pc = "idle"
    /\ ret = "false"
    /\ halted = "pcie_driver"
    /\ entry = InitializeComponents
    /\ installCalls["pcie_driver"] = DefaultMaxRetries
    /\ \A n \in Later(3) : components[n].status = "pending"

\* C6: after a kill that found component K Success, the new installer has
\* components 1..K Success and invokes no install or repair function of
\* them, so that K+1 is the first component it runs.
C6_Resume ==
    (killK > 0 /\ pc # "dead") =>
        \A n \in Earlier(killK + 1) :
            /\ components[n].status = "success"
            /\ installCalls[n] = 0
            /\ repairCalls[n] = 0

\* C7: loading the state file written by the last _save_state() into a new
\* installer gives the status, retry_count and error_msg that were saved.
C7_RoundTrip ==
    file.kind # "missing" =>
        \A n \in Names :
            LET l == LoadState(file, InitializeComponents)[n] IN
            /\ l.status = saved[n].status
            /\ l.retry_count = saved[n].retry_count
            /\ l.error_msg = saved[n].error_msg

\* C8: whenever an install or repair function is running, the state file
\* holds the in-memory status of every component.
C8_WriteThrough ==
    pc \in {"call", "repair"} =>
        /\ file.kind = "doc"
        /\ \A i \in 1..NumSteps :
            /\ i \in DOMAIN file.entries
            /\ file.entries[i].key = install_steps[i]
            /\ file.entries[i].status = components[install_steps[i]].status

\* the file is missing, is no JSON document, or has under a component name
\* a record that cannot be rebuilt
NotLoadable(f) ==
    \/ f.kind # "doc"
    \/ \E i \in DOMAIN f.entries :
        f.entries[i].key \in Names /\ ~Rebuildable(f.entries[i])

\* C9: an installer constructed on a missing, unparseable or unrebuildable
\* state file has all six components at the defaults.
C9_DefaultsOnBadFile ==
    (pc = "idle" /\ NotLoadable(file)) => components = InitializeComponents

\* C10: in an install_all() call that directly follows one that returned
\* true, no install and no repair function is invoked, no component field
\* changes and the call returns true.
C10_Idempotent ==
    (InCall /\ prevRet = "true") =>
        /\ installCalls = Zero
        /\ repairCalls = Zero
        /\ components = entry
        /\ (pc = "idle" => ret = "true")

\* the state file is a JSON document that records status, retry_count and
\* error_msg of every component of comps
FileHolds(f, comps) ==
    /\ f.kind = "doc"
    /\ \A i \in 1..NumSteps :
        /\ i \in DOMAIN f.entries
        /\ f.entries[i].key = install_steps[i]
        /\ f.entries[i].status = comps[install_steps[i]].status
        /\ f.entries[i].retry_count = comps[install_steps[i]].retry_count
        /\ f.entries[i].error_msg = comps[install_steps[i]].error_msg

\* every component is Pending with empty error_msg and retry_count 0
AllReset(comps) ==
    \A n \in Names :
        /\ comps[n].status = "pending"
        /\ comps[n].error_msg = ""
        /\ comps[n].retry_count = 0

\* C11: every rollback_installation() leaves all components Pending with
\* empty error_msg and retry_count 0, and the state file holds that reset
\* state.
C11_RollbackResetsAndSaves ==
    [][(rollbacks' = rollbacks + 1) =>
          (AllReset(components') /\ FileHolds(file', components'))]_vars

\* the components whose status is Running
RunningSet == {n \in Names : components[n].status = "running"}

\* C12: in every reachable state, through install_all(), rollback and
\* kill-and-restart, at most one component has status Running.
C12_AtMostOneRunning == Cardinality(RunningSet) <= 1

\* C12 witness: after a kill and restart, an install function of a later
\* component is running and that component is the only one Running
C12_Witness ==
    /\ restarts > 0
    /\ pc = "call"
    /\ idx > 1
    /\ RunningSet = {Cur}

\* C13: a first install_all() on a fresh directory in which no install
\* function failed has returned true with all six components Success in
\* memory and in the state file, each install function invoked once and no
\* repair function invoked.
C13_FreshRunAllSucceed ==
    (pc = "idle" /\ ret # "none" /\ calls = 1 /\ restarts = 0
        /\ rollbacks = 0 /\ failures = 0) =>
        /\ ret = "true"
        /\ \A n \in Names :
            /\ components[n].status = "success"
            /\ installCalls[n] = 1
            /\ repairCalls[n] = 0
        /\ FileHolds(file, components)

\* C14: when _retry_operation has left a component Failed after a failed
\* attempt, error_msg and the saved error_msg describe the last failed
\* attempt: the message of its exception when it raised, and not the
\* message of an exception when it returned False.
C14_LastFailureReason ==
    (pc = "repair" /\ lastReason.kind # "none") =>
        /\ components[Cur].status = "failed"
        /\ saved[Cur].error_msg = components[Cur].error_msg
        /\ (lastReason.kind = "raise" =>
                components[Cur].error_msg = lastReason.msg)
        /\ (lastReason.kind = "false" =>
                components[Cur].error_msg \notin Msgs)

\* C20: while a repair function runs and when it returns, no field of any
\* component changes: the repaired component keeps its status and its
\* exhausted retry_count.
C20_RepairResetsNothing ==
    [][pc = "repair" => components' = components]_vars

\* C20 witness: install_all() went on after a successful repair and the
\* repaired component still has its exhausted budget
C20_Witness ==
    /\ pc = "loop"
    /\ \E n \in Names :
        /\ Repaired(n)
        /\ components[n].retry_count = components[n].max_retries
        /\ components[n].status = "failed"

(* ---------------------------------------------------------------------- *)
(* DockerHailo8Manager (src/hailo8_installer/docker_manager.py)            *)
(* ---------------------------------------------------------------------- *)
\* number of setup_complete_docker_environment() calls of one manager
MaxSetups == 2

\* number of calls of a single step method of one manager
MaxDirectCalls == 2

\* the steps list of setup_complete_docker_environment(), in its order
DockerSteps ==
    <<"install_docker", "configure_docker_daemon", "build_hailo8_image",
      "test_hailo8_container", "create_docker_compose">>

\* length of the commands list of _install_docker_debian
DebianCommands == 7

\* length of the commands list of _install_docker_rhel
RhelCommands == 3

\* what a step did: its result, docker_available afterwards, the number of
\* shell commands it ran and of files it wrote
Did(result, avail, cmds, writes) ==
    [result |-> result, available |-> avail, cmds |-> cmds, writes |-> writes]

\* _install_docker_debian / _install_docker_rhel with n package commands,
\* after the one distribution query of install_docker: the first failing
\* command ends it; then systemctl start must succeed; systemctl enable is
\* not checked; only then docker_available becomes True
InstallDockerOn(n) ==
    {Did("false", FALSE, 1 + k, 0) : k \in 1..n}
    \cup {Did("false", FALSE, 1 + n + 1, 0), Did("true", TRUE, 1 + n + 2, 0)}

\* install_docker()
InstallDocker(avail) ==
    IF avail THEN {Did("true", TRUE, 0, 0)}
    ELSE {Did("false", FALSE, 1, 0)}
         \cup InstallDockerOn(DebianCommands)
         \cup InstallDockerOn(RhelCommands)

\* configure_docker_daemon(): daemon.json is written, then docker restarted
ConfigureDockerDaemon(avail) ==
    IF ~avail THEN {Did("false", avail, 0, 0)}
    ELSE {Did("false", avail, 0, 0), Did("false", avail, 1, 1),
          Did("true", avail, 1, 1)}

\* a build_hailo8_image() without its docker_available test
BuildHailo8ImageUnguarded(avail) ==
    {Did("false", avail, 0, 0), Did("false", avail, 0, 1),
     Did("false", avail, 1, 1), Did("true", avail, 1, 1)}

\* build_hailo8_image(): the Dockerfile is written, then docker build run
BuildHailo8Image(avail) ==
    IF ~avail THEN {Did("false", avail, 0, 0)}
    ELSE {Did("false", avail, 0, 0), Did("false", avail, 0, 1),
          Did("false", avail, 1, 1), Did("true", avail, 1, 1)}

\* test_hailo8_container(): docker run of the test script
TestHailo8Container(avail) ==
    IF ~avail THEN {Did("false", avail, 0, 0)}
    ELSE {Did("false", avail, 0, 0), Did("false", avail, 1, 0),
          Did("true", avail, 1, 0)}

\* create_docker_compose(): writes the compose file, no shell command
CreateDockerCompose(avail) ==
    {Did("false", avail, 0, 0), Did("true", avail, 0, 1)}

\* what the step function at position i of the steps list can do
StepOutcomes(i, avail) ==
    CASE i = 1 -> InstallDocker(avail)
      [] i = 2 -> ConfigureDockerDaemon(avail)
      [] i = 3 -> BuildHailo8Image(avail)
      [] i = 4 -> TestHailo8Container(avail)
      [] i = 5 -> CreateDockerCompose(avail)

\* DockerHailo8Manager.__init__: docker_available is the result of
\* check_docker_availability() (which docker and docker version both succeed)
DockerConstruct ==
    /\ docker.pc = "new"
    /\ \E avail \in BOOLEAN :
        docker' = [docker EXCEPT !.pc = "idle", !.available = avail]
    /\ UNCHANGED <<installerVars, tester, call, two>>

\* setup_complete_docker_environment() is entered
DockerSetupStart ==
    /\ docker.pc = "idle"
    /\ docker.setups < MaxSetups
    /\ docker' = [docker EXCEPT !.pc = "setup", !.step = 1, !.ret = "none",
                                !.log = <<>>, !.setups = @ + 1]
    /\ UNCHANGED <<installerVars, tester, call, two>>

\* a loop that goes on to the next step whatever the step returned
SetupContinuesAlways(result) == TRUE

\* the for loop goes on only after a step that returned True; a step that
\* returned False or raised makes it return False
SetupContinues(result) == result = "true"

\* one iteration of the for loop: the step function runs and returns
DockerStep ==
    /\ docker.pc = "setup"
    /\ docker.step <= Len(DockerSteps)
    /\ \E d \in StepOutcomes(docker.step, docker.available) :
        docker' =
            [docker EXCEPT
                !.available = d.available,
                !.log = Append(@, [step |-> DockerSteps[docker.step],
                                   result |-> d.result, cmds |-> d.cmds,
                                   writes |-> d.writes]),
                !.step = IF SetupContinues(d.result) THEN @ + 1 ELSE @,
                !.pc = IF SetupContinues(d.result) THEN "setup" ELSE "idle",
                !.ret = IF SetupContinues(d.result) THEN "none" ELSE "false"]
    /\ UNCHANGED <<installerVars, tester, call, two>>

\* the for loop is over: setup_complete_docker_environment() returns True
DockerSetupDone ==
    /\ docker.pc = "setup"
    /\ docker.step > Len(DockerSteps)
    /\ docker' = [docker EXCEPT !.pc = "idle", !.ret = "true"]
    /\ UNCHANGED <<installerVars, tester, call, two>>

\* one of the five methods is called on its own, outside a setup run
DockerCall ==
    /\ docker.pc = "idle"
    /\ docker.direct < MaxDirectCalls
    /\ \E i \in 1..Len(DockerSteps) :
        \E d \in StepOutcomes(i, docker.available) :
            docker' =
                [docker EXCEPT
                    !.available = d.available,
                    !.direct = @ + 1,
                    !.last = [step |-> DockerSteps[i], result |-> d.result,
                              cmds |-> d.cmds, writes |-> d.writes]]
    /\ UNCHANGED <<installerVars, tester, call, two>>

NextDocker ==
    \/ DockerConstruct
    \/ DockerSetupStart
    \/ DockerStep
    \/ DockerSetupDone
    \/ DockerCall

SpecDocker == Init /\ [][NextDocker]_vars

\* C15: in setup_complete_docker_environment() the steps run in the order
\* of the steps list, a step has run only if every earlier one returned
\* true, and a step that did not return true is the last one run and makes
\* the call return false; the call returns true only after all five steps
\* returned true.
C15_DockerSetupOrder ==
    /\ \A i \in 1..Len(docker.log) :
        /\ i <= Len(DockerSteps)
        /\ docker.log[i].step = DockerSteps[i]
        /\ (i < Len(docker.log) => docker.log[i].result = "true")
        /\ (docker.log[i].result # "true" =>
                /\ i = Len(docker.log)
                /\ docker.pc = "idle"
                /\ docker.ret = "false")
    /\ (docker.ret = "false" =>
            /\ docker.log # <<>>
            /\ docker.log[Len(docker.log)].result # "true")
    /\ (docker.ret = "true" =>
            /\ Len(docker.log) = Len(DockerSteps)
            /\ \A i \in 1..Len(docker.log) : docker.log[i].result = "true")

\* C15 witness: Docker was absent, its installation ran commands and
\* failed, and the setup returned false with no other step run
C15_Witness ==
    /\ docker.pc = "idle"
    /\ docker.ret = "false"
    /\ Len(docker.log) = 1
    /\ docker.log[1].step = "install_docker"
    /\ docker.log[1].cmds > 1
    /\ ~docker.available

(* ---------------------------------------------------------------------- *)
(* Hailo8Tester and its main() (src/hailo8_installer/tester.py)            *)
(* ---------------------------------------------------------------------- *)
\* the tests list of run_all_tests(), in its order
Tests ==
    <<"test_system_info", "test_driver_status", "test_hailort_installation",
      "test_docker_integration", "test_performance_benchmark",
      "test_stress_test">>

\* sys.argv[1] of a tester.py run ("" when no option is given)
Options == {"", "--help", "--quick"}

\* what a test function can do: return True, return False, or raise
TestOutcomes == {"true", "false", "raise"}

\* all(results.values())
AllPassed(results) == \A t \in DOMAIN results : results[t]

\* main() is entered: --help prints the usage and returns (exit code 0);
\* any other argument list constructs the tester and enters run_all_tests()
TesterMain ==
    /\ tester.pc = "new"
    /\ \E a \in Options :
        tester' = [tester EXCEPT !.argv = a,
                                 !.pc = IF a = "--help" THEN "exit" ELSE "tests"]
    /\ UNCHANGED <<installerVars, docker, call, two>>

\* a battery that records a raising test as passed
RecordedRaisePasses(o) == o # "false"

\* the boolean results[test_name] gets: the returned value, False on raise
Recorded(o) == o = "true"

\* one iteration of the for loop of run_all_tests()
RunTest ==
    /\ tester.pc = "tests"
    /\ tester.idx <= Len(Tests)
    /\ \E o \in TestOutcomes :
        tester' =
            [tester EXCEPT
                !.ran = Append(@, [test |-> Tests[tester.idx], outcome |-> o]),
                !.results = [t \in DOMAIN @ \cup {Tests[tester.idx]} |->
                                IF t = Tests[tester.idx] THEN Recorded(o)
                                ELSE @[t]],
                !.idx = @ + 1]
    /\ UNCHANGED <<installerVars, docker, call, two>>

\* run_all_tests() returns, the report is written, sys.exit(0 or 1)
TesterExit ==
    /\ tester.pc = "tests"
    /\ tester.idx > Len(Tests)
    /\ tester' = [tester EXCEPT
                    !.pc = "exit",
                    !.exit = IF AllPassed(tester.results) THEN 0 ELSE 1]
    /\ UNCHANGED <<installerVars, docker, call, two>>

NextTester ==
    \/ TesterMain
    \/ RunTest
    \/ TesterExit

SpecTester == Init /\ [][NextTester]_vars

\* the tester.py run is over and was not a --help run
TesterRan == tester.pc = "exit" /\ tester.argv # "--help"

C19_QuickSkipsStress ==
    (TesterRan /\ tester.argv = "--quick") =>
        /\ "test_stress_test" \notin DOMAIN tester.results
        /\ \A i \in 1..Len(tester.ran) : tester.ran[i].test # "test_stress_test"

(* ---------------------------------------------------------------------- *)
(* The command runners and the package-level install_hailo8()              *)
(* ---------------------------------------------------------------------- *)
\* largest exit code a command of the model ends with
MaxExitCode == 2

\* Hailo8Installer._execute_command, DockerHailo8Manager.run_command,
\* Hailo8Tester.run_command
Runners == {"_execute_command", "docker.run_command", "tester.run_command"}

\* stand-in for the fixed text of the except subprocess.TimeoutExpired branch
TimeoutMessage == "timeout"

\* what the child process wrote to one of its streams
Texts == {"", "t"}

\* str(e) of an exception of subprocess.run other than TimeoutExpired
ErrorTexts == {"no such file", "permission denied"}

\* what subprocess.run(command, ..., check=False) can do: the child ends
\* with an exit code, the timeout expires, or another exception is raised
\* (the command cannot be spawned, ...)
CommandOutcomes ==
    [kind : {"exit"}, code : 0..MaxExitCode, out : Texts, err : Texts,
     text : {""}]
    \cup [kind : {"timeout"}, code : {0}, out : {""}, err : {""}, text : {""}]
    \cup [kind : {"error"}, code : {0}, out : {""}, err : {""},
          text : ErrorTexts]

\* the capture_output values a runner can be called with: only
\* _execute_command has the parameter, the other two always capture
CaptureFlags(runner) ==
    IF runner = "_execute_command" THEN BOOLEAN ELSE {TRUE}

\* what the caller of a runner gets
Returned(success, stdout, stderr) ==
    [kind |-> "return", raised |-> FALSE, success |-> success,
     stdout |-> stdout, stderr |-> stderr]

\* a runner that calls subprocess.run with check=True: a non-zero exit
\* raises CalledProcessError, which the last handler turns into its text
RunCommandChecked(runner, capture, o) ==
    CASE o.kind = "exit" /\ o.code = 0 ->
            Returned(TRUE, IF capture THEN o.out ELSE "",
                     IF capture THEN o.err ELSE "")
      [] o.kind = "exit" /\ o.code # 0 -> Returned(FALSE, "", "exit status")
      [] o.kind = "timeout" -> Returned(FALSE, "", TimeoutMessage)
      [] o.kind = "error" -> Returned(FALSE, "", o.text)

\* the body of the three runners: returncode == 0 with the two streams
\* ("" for both when _execute_command does not capture), the timeout
\* message on TimeoutExpired, str(e) on any other exception
RunCommand(runner, capture, o) ==
    CASE o.kind = "exit" ->
            Returned(o.code = 0, IF capture THEN o.out ELSE "",
                     IF capture THEN o.err ELSE "")
      [] o.kind = "timeout" -> Returned(FALSE, "", TimeoutMessage)
      [] o.kind = "error" -> Returned(FALSE, "", o.text)

\* a runner is called
CallRunner ==
    /\ call.fn = "none" \/ call.done
    /\ \E r \in Runners : \E c \in CaptureFlags(r) :
        call' = [fn |-> r, done |-> FALSE,
                 input |-> [kind |-> "command", capture |-> c],
                 result |-> [kind |-> "none"]]
    /\ UNCHANGED <<installerVars, docker, tester, two>>

\* the command ends and the runner returns
RunnerReturns ==
    /\ call.fn \in Runners
    /\ ~call.done
    /\ \E o \in CommandOutcomes :
        call' = [call EXCEPT
                    !.done = TRUE,
                    !.input = [kind |-> "command", capture |-> @.capture,
                               outcome |-> o],
                    !.result = RunCommand(call.fn, call.input.capture, o)]
    /\ UNCHANGED <<installerVars, docker, tester, two>>

\* the parameters of Hailo8Installer.__init__ besides self
InitParams == {"install_dir"}

\* the keyword arguments install_hailo8() constructs the installer with
InitKeywords == {"install_dir", "config_file"}

\* the public methods of Hailo8Installer
InstallerMethods ==
    {"check_system_environment", "install_all", "install_dependencies",
     "install_pcie_driver", "install_hailort", "configure_docker",
     "validate_installation", "show_status", "rollback_installation"}

\* the public methods of DockerHailo8Manager
DockerMethods ==
    {"setup_logging", "load_config", "run_command",
     "check_docker_availability", "install_docker",
     "configure_docker_daemon", "create_dockerfile", "build_hailo8_image",
     "test_hailo8_container", "create_docker_compose",
     "setup_complete_docker_environment", "cleanup_docker_resources"}

\* the argument lists install_hailo8() is called with ("None" = not given)
InstallArgs ==
    [kind : {"install"}, install_dir : {"None", "/opt/hailo8"},
     config_file : {"None", "config.yaml"}, force_reinstall : BOOLEAN,
     skip_docker : BOOLEAN]

\* install_hailo8() with every argument at its default
DefaultArgs ==
    [kind |-> "install", install_dir |-> "None", config_file |-> "None",
     force_reinstall |-> FALSE, skip_docker |-> FALSE]

\* install_hailo8(): every statement is inside the try, and the handler of
\* any exception returns False. The constructor call raises TypeError on a
\* keyword it has no parameter for; calling a method the object does not
\* have raises AttributeError. pipelineOk: the installation itself succeeds.
InstallHailo8(args, pipelineOk) ==
    IF ~(InitKeywords \subseteq InitParams) THEN FALSE
    ELSE IF args.force_reinstall /\ "uninstall" \notin InstallerMethods
    THEN FALSE
    ELSE IF "install" \notin InstallerMethods THEN FALSE
    ELSE IF pipelineOk /\ ~args.skip_docker
            /\ "setup_docker" \notin DockerMethods
    THEN FALSE
    ELSE pipelineOk

\* install_hailo8() is called
CallInstallHailo8 ==
    /\ call.fn = "none" \/ call.done
    /\ \E a \in InstallArgs :
        call' = [fn |-> "install_hailo8", done |-> FALSE,
                 input |-> [args |-> a],
                 result |-> [kind |-> "none"]]
    /\ UNCHANGED <<installerVars, docker, tester, two>>

\* install_hailo8() returns
InstallHailo8Returns ==
    /\ call.fn = "install_hailo8"
    /\ ~call.done
    /\ \E ok \in BOOLEAN :
        call' = [call EXCEPT
                    !.done = TRUE,
                    !.input = [args |-> @.args, pipelineOk |-> ok],
                    !.result = [kind |-> "return", raised |-> FALSE,
                                value |-> InstallHailo8(call.input.args, ok)]]
    /\ UNCHANGED <<installerVars, docker, tester, two>>

\* the package managers install_dependencies() looks for, in its order
PackageManagers == <<"apt", "yum", "dnf">>

\* length of the list _get_dependencies_for_pm() returns
NumDependencies == 10

\* the first package manager that `which` finds, "none" when it finds none
CurrentPm(found) ==
    IF \A i \in 1..Len(PackageManagers) : ~found[PackageManagers[i]]
    THEN "none"
    ELSE PackageManagers[CHOOSE i \in 1..Len(PackageManagers) :
            /\ found[PackageManagers[i]]
            /\ \A j \in 1..(i - 1) : ~found[PackageManagers[j]]]

\* what the commands of one install_dependencies() call do: which package
\* managers `which` finds, whether `apt update` succeeds, and how many of
\* the dependency install commands fail
DependencyInputs ==
    [found : [{"apt", "yum", "dnf"} -> BOOLEAN], updateOk : BOOLEAN,
     failed : 0..NumDependencies]

\* an install_dependencies() that reports a failed dependency install
InstallDependenciesStrict(found, updateOk, failed) ==
    IF CurrentPm(found) = "none" THEN FALSE
    ELSE IF CurrentPm(found) = "apt" /\ ~updateOk THEN FALSE
    ELSE failed = 0

\* install_dependencies(): False without a package manager or when
\* `apt update` fails; the result of a dependency install command is only
\* logged
InstallDependencies(found, updateOk, failed) ==
    IF CurrentPm(found) = "none" THEN FALSE
    ELSE IF CurrentPm(found) = "apt" /\ ~updateOk THEN FALSE
    ELSE TRUE

\* _retry_operation calls install_dependencies() for the first time
CallInstallDependencies ==
    /\ call.fn = "none" \/ call.done
    /\ call' = [fn |-> "install_dependencies", done |-> FALSE,
                input |-> [kind |-> "dependencies"],
                result |-> [kind |-> "none"]]
    /\ UNCHANGED <<installerVars, docker, tester, two>>

\* install_dependencies() returns and _retry_operation records the attempt
InstallDependenciesReturns ==
    /\ call.fn = "install_dependencies"
    /\ ~call.done
    /\ \E i \in DependencyInputs :
        LET value == InstallDependencies(i.found, i.updateOk, i.failed)
            running == [InitializeComponents["dependencies"]
                            EXCEPT !.status = "running"]
        IN call' = [call EXCEPT
                    !.done = TRUE,
                    !.input = [kind |-> "dependencies", found |-> i.found,
                               updateOk |-> i.updateOk, failed |-> i.failed],
                    !.result = [kind |-> "return", raised |-> FALSE,
                                value |-> value,
                                component |->
                                    AfterInstall(running,
                                        [kind |-> IF value THEN "true"
                                                  ELSE "false",
                                         msg |-> ""])]]
    /\ UNCHANGED <<installerVars, docker, tester, two>>

NextCalls ==
    \/ CallRunner
    \/ RunnerReturns
    \/ CallInstallHailo8
    \/ InstallHailo8Returns
    \/ CallInstallDependencies
    \/ InstallDependenciesReturns

SpecCalls == Init /\ [][NextCalls]_vars

\* a runner has returned
RunnerDone == call.fn \in Runners /\ call.done

\* C16: no runner raises, whatever the command does; success is true iff
\* the command ended with exit code 0; a non-zero exit gives
\* (False, stdout, stderr) with the captured streams, a timeout gives
\* (False, "", timeout message), any other failure (False, "", its text).
C16_RunnersNeverRaise ==
    RunnerDone =>
        LET o == call.input.outcome
            r == call.result
            captured(t) == IF call.input.capture THEN t ELSE ""
        IN  /\ r.kind = "return"
            /\ ~r.raised
            /\ (r.success <=> (o.kind = "exit" /\ o.code = 0))
            /\ (o.kind = "exit" /\ o.code # 0 =>
                    r.stdout = captured(o.out) /\ r.stderr = captured(o.err))
            /\ (o.kind = "timeout" =>
                    r.stdout = "" /\ r.stderr = TimeoutMessage)
            /\ (o.kind = "error" => r.stdout = "" /\ r.stderr = o.text)

\* C16 witness: a command of _execute_command ended with a non-zero exit
\* code after writing to both streams, and the caller got both texts
C16_Witness ==
    /\ RunnerDone
    /\ call.fn = "_execute_command"
    /\ call.input.capture
    /\ call.input.outcome.kind = "exit"
    /\ call.input.outcome.code = MaxExitCode
    /\ call.result.stdout = "t"
    /\ call.result.stderr = "t"
    /\ ~call.result.success

\* C18: install_hailo8() called with its default arguments returns True
\* iff the installation succeeds.
C18_InstallHailo8ReturnsOutcome ==
    (call.fn = "install_hailo8" /\ call.done /\ call.input.args = DefaultArgs)
        => (call.result.value <=> call.input.pipelineOk)

(* ---------------------------------------------------------------------- *)
(* Further properties of install_all() and rollback_installation()         *)
(* ---------------------------------------------------------------------- *)
\* C21: within one install_all() call an install or repair function of a
\* component is invoked only while no function of a later component of the
\* fixed sequence has been invoked, and a repair function is invoked only
\* when its component's retry loop has ended: the component is Failed and
\* its retry budget is used up.
C21_FixedSequence ==
    [][\A n \in Names :
        /\ (installCalls'[n] > installCalls[n]
                \/ repairCalls'[n] > repairCalls[n]) =>
                \A m \in Later(IndexOf(n)) :
                    installCalls'[m] = 0 /\ repairCalls'[m] = 0
        /\ repairCalls'[n] > repairCalls[n] =>
                /\ components'[n].status = "failed"
                /\ components'[n].retry_count >= components'[n].max_retries
      ]_vars

\* C21 witness: the repair function of pcie_driver is running after the
\* install functions of the two components before it were invoked
C21_Witness ==
    /\ pc = "repair"
    /\ Cur = "pcie_driver"
    /\ installCalls["system_check"] > 0
    /\ installCalls["dependencies"] > 0
    /\ installCalls["pcie_driver"] > 0
    /\ \A m \in Later(idx) : installCalls[m] = 0

C23_HaltsOnlyAtCheckedRepairs ==
    /\ (pc = "idle" /\ ret = "false") =>
            /\ halted \in {"pcie_driver", "hailort", "validation"}
            /\ idx = IndexOf(halted)
    /\ \A n \in {"system_check", "dependencies", "docker_config"} :
            halted # n

\* C23 witness: system_check failed every attempt and was repaired, then
\* pcie_driver failed every attempt, its repair failed and install_all()
\* returned False
C23_Witness ==
    /\ pc = "idle"
    /\ ret = "false"
    /\ halted = "pcie_driver"
    /\ repairCalls["system_check"] = 1
    /\ repairCalls["pcie_driver"] = 1

\* C24: a component that is Success stays exactly as it is (status,
\* retry_count, error_msg) in every step except rollback_installation()
\* (and the construction of a new installer after a restart), and in an
\* install_all() call that it entered as Success neither its install
\* function nor its repair function is invoked.
C24_SuccessIsSkipped ==
    /\ [](\A n \in Names :
            (InCall /\ entry[n].status = "success") =>
                /\ installCalls[n] = 0
                /\ repairCalls[n] = 0
                /\ components[n] = entry[n])
    /\ [][\A n \in Names :
            (components[n].status = "success"
                /\ components'[n] # components[n]) =>
                    rollbacks' = rollbacks + 1 \/ pc = "dead"]_vars

\* C24 witness: a second install_all() call has passed a component that
\* the first call made Success and is installing a later one
C24_Witness ==
    /\ calls = 2
    /\ restarts = 0
    /\ rollbacks = 0
    /\ pc = "call"
    /\ idx > 1
    /\ entry["system_check"].status = "success"
    /\ components["system_check"] = entry["system_check"]
    /\ installCalls["system_check"] = 0

\* C25: the status of every component is always one of Pending, Running,
\* Success, Failed (Rollback and Recovered are never assigned), and a
\* component becomes Success only in a step in which it was Running.
C25_FourStatuses ==
    /\ [](\A n \in Names :
            components[n].status \in {"pending", "running", "success", "failed"})
    /\ [][\A n \in Names :
            (components[n].status # "success"
                /\ components'[n].status = "success") =>
                    components[n].status = "running"]_vars

\* C25 witness: after a rollback and a repaired failure the four statuses
\* are all that occurs: one component Failed and repaired, the next one
\* Success, a third one Running, the rest Pending
C25_Witness ==
    /\ rollbacks = 1
    /\ pc = "call"
    /\ components["system_check"].status = "failed"
    /\ components["dependencies"].status = "success"
    /\ components["pcie_driver"].status = "running"
    /\ components["hailort"].status = "pending"

\* C26: a _save_state() whose write fails does not raise and changes
\* nothing but the file: no operation ever raises; the attempt that saved
\* Running goes on to invoke the install function with no other field
\* changed; the attempt that saved Success ends the retry loop and the for
\* loop moves on; the exhausted loop that saved Failed goes on to the
\* repair function; a rollback leaves every component reset.
C26_SaveFailureSwallowed ==
    /\ [](ret # "raise")
    /\ [][(NotLoadable(file') /\ pc' # "dead") =>
            /\ (pc = "retry" /\ RetryGuard(components[Cur])) =>
                    /\ pc' = "call"
                    /\ installCalls'[Cur] = installCalls[Cur] + 1
                    /\ components' =
                        [components EXCEPT ![Cur].status = "running"]
            /\ (pc = "retry" /\ ~RetryGuard(components[Cur])) =>
                    /\ pc' = "repair"
                    /\ repairCalls'[Cur] = repairCalls[Cur] + 1
                    /\ components' =
                        [components EXCEPT ![Cur].status = "failed"]
            /\ (pc = "call" /\ components'[Cur].status = "success") =>
                    /\ pc' = "loop"
                    /\ idx' = idx + 1
                    /\ components' =
                        [components EXCEPT ![Cur].status = "success",
                                           ![Cur].error_msg = ""]
            /\ (rollbacks' = rollbacks + 1) =>
                    /\ pc' = "idle"
                    /\ AllReset(components')
      ]_vars

\* C26 witness: every write of a fresh run failed, and install_all() still
\* invoked each install function once and returned True
C26_Witness ==
    /\ pc = "idle"
    /\ ret = "true"
    /\ restarts = 0
    /\ NotLoadable(file)
    /\ saved = components
    /\ \A n \in Names : installCalls[n] = 1 /\ components[n].status = "success"

(* ---------------------------------------------------------------------- *)
(* install_dependencies()                                                  *)
(* ---------------------------------------------------------------------- *)
\* C28: install_dependencies() returns True exactly when a package manager
\* is found and, if it is apt, `apt update` succeeded, however many of the
\* dependency install commands failed; the dependencies component is then
\* Success after this first attempt, with retry_count 0.
C28_DependencyFailuresIgnored ==
    (call.fn = "install_dependencies" /\ call.done) =>
        /\ call.result.value <=>
            /\ \E m \in DOMAIN call.input.found : call.input.found[m]
            /\ (call.input.found["apt"] => call.input.updateOk)
        /\ call.result.value =>
            /\ call.result.component.status = "success"
            /\ call.result.component.retry_count = 0

\* C28 witness: apt was found, apt update succeeded, every dependency
\* install command failed, and the component is Success
C28_Witness ==
    /\ call.fn = "install_dependencies"
    /\ call.done
    /\ call.input.found["apt"]
    /\ call.input.updateOk
    /\ call.input.failed = NumDependencies
    /\ call.result.value
    /\ call.result.component.status = "success"

(* ---------------------------------------------------------------------- *)
(* docker_available                                                        *)
(* ---------------------------------------------------------------------- *)
\* the methods that test docker_available first
GuardedSteps ==
    {"configure_docker_daemon", "build_hailo8_image", "test_hailo8_container"}

\* C29: a call of configure_docker_daemon(), build_hailo8_image() or
\* test_hailo8_container() made while docker_available is false returns
\* False without running a command or writing a file; after construction
\* docker_available changes only from false to true, and only in an
\* install_docker() that returned True after running all its commands
\* including the service start.
C29_DockerAvailableGuards ==
    [][(docker.pc # "new" /\ docker' # docker) =>
        LET e == IF Len(docker'.log) > Len(docker.log)
                 THEN docker'.log[Len(docker'.log)]
                 ELSE docker'.last
            ran == \/ Len(docker'.log) > Len(docker.log)
                   \/ docker'.direct > docker.direct
        IN  /\ (ran /\ e.step \in GuardedSteps /\ ~docker.available) =>
                    e.result = "false" /\ e.cmds = 0 /\ e.writes = 0
            /\ (docker'.available # docker.available) =>
                    /\ ~docker.available
                    /\ ran
                    /\ e.step = "install_docker"
                    /\ e.result = "true"
                    /\ e.cmds \in {1 + DebianCommands + 2, 1 + RhelCommands + 2}
      ]_vars

\* C29 witness: Docker was absent, build_hailo8_image() was called and
\* returned False with no command run and no file written; then
\* install_docker() succeeded and docker_available became true
C29_Witness ==
    /\ docker.direct = 1
    /\ docker.last.step = "build_hailo8_image"
    /\ docker.last.result = "false"
    /\ docker.last.cmds = 0
    /\ docker.last.writes = 0
    /\ docker.pc = "setup"
    /\ Len(docker.log) = 1
    /\ docker.log[1].result = "true"
    /\ docker.log[1].cmds > 0
    /\ docker.available

(* ---------------------------------------------------------------------- *)
(* Termination of install_all()                                            *)
(* ---------------------------------------------------------------------- *)
\* one step of a running install_all(): the interpreter goes on, and every
\* install and repair function it calls returns or raises
InstallAllStep ==
    \/ SkipSuccess
    \/ EnterRetry
    \/ RetryAttempt
    \/ InstallReturns
    \/ RetryExhausted
    \/ RepairReturns
    \/ ReturnTrue

\* an installer process that is not killed
NextLive ==
    \/ Construct
    \/ StartInstallAll
    \/ InstallAllStep
    \/ RollbackInstallation

SpecLive == Init /\ [][NextLive]_vars /\ WF_vars(InstallAllStep)

\* install_all() is running
Running == pc \in {"loop", "retry", "call", "repair"}

MaxTwoFailures == 3

\* the component the for loop of process p is at
CurOf(p) == install_steps[two.procs[p].idx]

\* Hailo8Installer.__init__ in process p: no lock file is made or tested,
\* whatever the other process is doing
TwoConstruct(p) ==
    /\ two.procs[p].pc = "new"
    /\ two' = [two EXCEPT
                !.procs[p].pc = "idle",
                !.procs[p].components = LoadState(file, InitializeComponents)]
    /\ UNCHANGED <<installerVars, docker, tester, call>>

\* install_all() is entered in process p
TwoStart(p) ==
    /\ two.procs[p].pc = "idle"
    /\ two.procs[p].calls < MaxCalls
    /\ two' = [two EXCEPT !.procs[p].pc = "loop", !.procs[p].idx = 1,
                          !.procs[p].ret = "none", !.procs[p].calls = @ + 1]
    /\ UNCHANGED <<installerVars, docker, tester, call>>

\* for loop of process p: a component that is already Success is skipped
TwoSkip(p) ==
    /\ two.procs[p].pc = "loop"
    /\ two.procs[p].idx <= NumSteps
    /\ AlreadyDone(two.procs[p].components[CurOf(p)])
    /\ two' = [two EXCEPT !.procs[p].idx = @ + 1]
    /\ UNCHANGED <<installerVars, docker, tester, call>>

\* _retry_operation of process p: Running, save, the install function is
\* invoked
TwoAttempt(p) ==
    /\ two.procs[p].pc = "loop"
    /\ two.procs[p].idx <= NumSteps
    /\ ~AlreadyDone(two.procs[p].components[CurOf(p)])
    /\ RetryGuard(two.procs[p].components[CurOf(p)])
    /\ LET comps == [two.procs[p].components
                        EXCEPT ![CurOf(p)].status = "running"]
       IN  /\ file' = SaveState(comps)
           /\ two' = [two EXCEPT !.procs[p].components = comps,
                                 !.procs[p].pc = "call",
                                 !.lastSaver = p, !.snapshot = comps]
    /\ UNCHANGED <<components, pc, idx, ret, installCalls, repairCalls, entry,
                   prevRet, saved, halted, killK, calls, restarts, rollbacks,
                   failures, lastReason, docker, tester, call>>

\* the install function of process p returns or raises
TwoInstallReturns(p) ==
    /\ two.procs[p].pc = "call"
    /\ \E o \in InstallOutcomes :
        /\ o.kind # "true" => two.failures < MaxTwoFailures
        /\ LET comps == [two.procs[p].components
                            EXCEPT ![CurOf(p)] = AfterInstall(@, o)]
           IN IF o.kind = "true"
              THEN /\ file' = SaveState(comps)
                   /\ two' = [two EXCEPT !.procs[p].components = comps,
                                         !.procs[p].pc = "loop",
                                         !.procs[p].idx = @ + 1,
                                         !.lastSaver = p, !.snapshot = comps]
              ELSE /\ file' = file
                   /\ two' = [two EXCEPT !.procs[p].components = comps,
                                         !.procs[p].pc = "loop",
                                         !.failures = @ + 1]
    /\ UNCHANGED <<components, pc, idx, ret, installCalls, repairCalls, entry,
                   prevRet, saved, halted, killK, calls, restarts, rollbacks,
                   failures, lastReason, docker, tester, call>>

\* _retry_operation of process p after its loop: Failed, save; install_all
\* invokes the repair function
TwoExhausted(p) ==
    /\ two.procs[p].pc = "loop"
    /\ two.procs[p].idx <= NumSteps
    /\ ~AlreadyDone(two.procs[p].components[CurOf(p)])
    /\ ~RetryGuard(two.procs[p].components[CurOf(p)])
    /\ LET comps == [two.procs[p].components
                        EXCEPT ![CurOf(p)] = AfterExhausted(@)]
       IN  /\ file' = SaveState(comps)
           /\ two' = [two EXCEPT !.procs[p].components = comps,
                                 !.procs[p].pc = "repair",
                                 !.lastSaver = p, !.snapshot = comps]
    /\ UNCHANGED <<components, pc, idx, ret, installCalls, repairCalls, entry,
                   prevRet, saved, halted, killK, calls, restarts, rollbacks,
                   failures, lastReason, docker, tester, call>>

\* the repair function of process p returns
TwoRepairReturns(p) ==
    /\ two.procs[p].pc = "repair"
    /\ \E ok \in RepairOutcomes(CurOf(p)) :
        two' = [two EXCEPT
                  !.procs[p].components[CurOf(p)] = AfterRepair(@, ok),
                  !.procs[p].pc = IF RepairContinues(ok) THEN "loop" ELSE "idle",
                  !.procs[p].idx = IF RepairContinues(ok) THEN @ + 1 ELSE @,
                  !.procs[p].ret = IF RepairContinues(ok) THEN @ ELSE "false"]
    /\ UNCHANGED <<installerVars, docker, tester, call>>

\* the for loop of process p is over: install_all() returns True
TwoReturnTrue(p) ==
    /\ two.procs[p].pc = "loop"
    /\ two.procs[p].idx > NumSteps
    /\ two' = [two EXCEPT !.procs[p].pc = "idle", !.procs[p].ret = "true"]
    /\ UNCHANGED <<installerVars, docker, tester, call>>

NextTwo ==
    \E p \in Procs :
        \/ TwoConstruct(p)
        \/ TwoStart(p)
        \/ TwoSkip(p)
        \/ TwoAttempt(p)
        \/ TwoInstallReturns(p)
        \/ TwoExhausted(p)
        \/ TwoRepairReturns(p)
        \/ TwoReturnTrue(p)

SpecTwo == Init /\ [][NextTwo]_vars

\* both processes are inside the install function of the same component
BothInstalling ==
    /\ \A p \in Procs : two.procs[p].pc = "call"
    /\ CurOf(1) = CurOf(2)
    /\ \A p \in Procs : two.procs[p].components[CurOf(p)].status = "running"

\* C27: when two installers work on the same install directory, the state
\* file holds, after any save and when both have returned, the component
\* map of the process that saved last.
C27_LastSaverWins ==
    two.lastSaver # 0 => FileHolds(file, two.snapshot)

====
